---- MODULE Spec2Model ----
(***************************************************************************)
(* QueryVault: the ingestion pipeline (app/data_builder.py), the server     *)
(* startup check (app/main.py) and the per-client rate limiter              *)
(* (app/dependencies.py).                                                    *)
(*                                                                           *)
(* Strings are sequences of one-character strings.  A JSON value is a        *)
(* record [kind, val]: kind "str" (val the characters), "none" (absent or    *)
(* null) or "nonstr" (a truthy value that is no string, such as a number).   *)
(***************************************************************************)
EXTENDS Integers, Sequences, FiniteSets, TLC

\* ------------------------------------------------------------------ bounds
MaxAnswerLen == 5
MaxChunkSize == 2
MaxFiles == 2
MaxItems == 2
MaxRuns == 2
MaxReqs == 3
MaxTime == 3
MaxLimit == 2
MaxWindow == 2

\* ----------------------------------------------------------- Python values
Str(s) == [kind |-> "str", val |-> s]
None == [kind |-> "none", val |-> <<>>]
NonStr == [kind |-> "nonstr", val |-> <<>>]

\* bool(v): None and "" are falsy, a non-empty string or a number is truthy
Truthy(v) == v.kind = "nonstr" \/ (v.kind = "str" /\ v.val # <<>>)

IsSpace(ch) == ch = " "

\* str.lower() on the model's alphabet
LowerChar(ch) == IF ch = "A" THEN "a" ELSE IF ch = "B" THEN "b" ELSE ch
Lower(s) == [i \in DOMAIN s |-> LowerChar(s[i])]

RECURSIVE LStrip(_)
LStrip(s) == IF s # <<>> /\ IsSpace(Head(s)) THEN LStrip(Tail(s)) ELSE s

RECURSIVE RStrip(_)
RStrip(s) ==
    IF s # <<>> /\ IsSpace(s[Len(s)]) THEN RStrip(SubSeq(s, 1, Len(s) - 1)) ELSE s

\* str.strip()
Strip(s) == RStrip(LStrip(s))

\* str.split(): the maximal runs of non-whitespace characters, in order
RECURSIVE SplitFrom(_, _, _)
SplitFrom(s, cur, acc) ==
    IF s = <<>>
    THEN IF cur = <<>> THEN acc ELSE Append(acc, cur)
    ELSE IF IsSpace(Head(s))
         THEN SplitFrom(Tail(s), <<>>, IF cur = <<>> THEN acc ELSE Append(acc, cur))
         ELSE SplitFrom(Tail(s), Append(cur, Head(s)), acc)
Split(s) == SplitFrom(s, <<>>, <<>>)

\* " ".join(words)
RECURSIVE Join(_)
Join(words) ==
    IF words = <<>> THEN <<>>
    ELSE IF Len(words) = 1 THEN words[1]
    ELSE words[1] \o <<" ">> \o Join(Tail(words))

Min(a, b) == IF a < b THEN a ELSE b

\* q.strip().lower(): the deduplication key
\* (variant that forgets .lower())
QuestionKeyCaseSensitive(q) == Strip(q)
QuestionKey(q) == Lower(Strip(q))

\* range(0, len(words), W), as 1-based positions from i
RECURSIVE RangeFrom(_, _, _)
RangeFrom(i, n, W) == IF i > n THEN <<>> ELSE <<i>> \o RangeFrom(i + W, n, W)

\* words[i:i+W] for the window starting at (1-based) position i
\* (variant slicing one word too far: words[i:i+W+1])
WindowWordsOverlap(words, i, W) == SubSeq(words, i, Min(i + W, Len(words)))
WindowWords(words, i, W) == SubSeq(words, i, Min(i + W - 1, Len(words)))

\* words = a.strip().split(); the chunk_text of every window, in order
ChunkTexts(a, W) ==
    LET words == Split(Strip(a))
        starts == RangeFrom(1, Len(words), W)
    IN [k \in DOMAIN starts |-> Join(WindowWords(words, starts[k], W))]

\* f"Question: {q.strip()}\nAnswer: {chunk_text}"
Document(q, chunk_text) == <<"Question: ">> \o Strip(q) \o <<"\nAnswer: ">> \o chunk_text


\* --------------------------------------------------------------- the state
VARIABLES
    settings,            \* Settings: CHUNK_SIZE_WORDS, RATE_LIMIT_REQUESTS, RATE_LIMIT_TIMEFRAME_SECONDS
    files,               \* the .json files of DATA_DIR, in os.listdir order
    store,               \* the persisted collection COLLECTION_NAME: [exists, gen, docs]
    bpc,                 \* position of the build-db process
    fileIdx, recIdx,     \* _process_files: current file and current qna_item
    chunks, metadatas, seen_questions,
    result,              \* what DatabaseBuilder.run returned
    runs,                \* number of build-db runs started
    origins,             \* history: for each chunk, <<file, item>> it was cut from
    reached,             \* history: the items _process_files has handled
    keyOrigins,          \* history: the items that added a key to seen_questions
    failedFiles,         \* history: the files whose processing raised
    storeAtStart,        \* history: the collection when the current run started
    prevBuild,           \* history: the documents the previous run left, if it succeeded
    spc,                 \* position of the server process
    handle,              \* app.state.chroma_collection: the gen of the opened collection
    startupSaw,          \* history: the collection as count() found it
    rate_limit_records,  \* client ip -> list of admitted timestamps
    clock,               \* time()
    reqs,                \* the /ask requests: [pc, ip, now, snap, prevSeen]
    admittedLog,         \* history: client ip -> every timestamp ever appended
    lastPrune,           \* history: client ip -> `now` of the latest pruning
    lastSeen             \* history: client ip -> `now` of the latest request, or -1

buildVars == <<files, store, bpc, fileIdx, recIdx, chunks, metadatas, seen_questions,
               result, runs, origins, reached, keyOrigins, failedFiles, storeAtStart,
               prevBuild>>
serverVars == <<spc, handle, startupSaw>>
rateVars == <<rate_limit_records, clock, reqs, admittedLog, lastPrune, lastSeen>>
vars == <<settings, buildVars, serverVars, rateVars>>

\* ------------------------------------------------------------------ inputs
Clients == {"10.0.0.1", "10.0.0.2"}
Reqs == 1..MaxReqs
SeqsUpTo(S, n) == UNION {[1..k -> S] : k \in 0..n}

Item(q, a, url) == [kind |-> "dict", question |-> q, answer |-> a, url |-> url]
\* an entry of a "questions" list that is no JSON object
BadItem == [kind |-> "bad", question |-> None, answer |-> None, url |-> ""]

Items ==
    { Item(Str(<<"A">>), Str(<<"x", " ", " ", "y", " ", "z">>), ""),
      Item(Str(<<" ", "a">>), Str(<<"y">>), "u1"),
      Item(Str(<<"a">>), Str(<<>>), ""),
      Item(Str(<<"A", " ">>), NonStr, ""),
      BadItem }

\* a file is unreadable (open or json.load raises) or holds its qna_items in
\* category-then-list order
UnreadableFile == [readable |-> FALSE, items |-> <<>>]
ReadableFile(items) == [readable |-> TRUE, items |-> items]

FileValues == {UnreadableFile} \cup {ReadableFile(is) : is \in SeqsUpTo(Items, MaxItems)}

RECURSIVE FileListsOf(_, _)
FileListsOf(n, budget) ==
    IF n = 0 THEN {<<>>}
    ELSE {<<>>} \cup
         UNION { {<<f>> \o rest : rest \in FileListsOf(n - 1, budget - Len(f.items))}
                 : f \in {g \in FileValues : Len(g.items) <= budget} }
\* at most MaxFiles files holding at most MaxItems items between them
FileLists == FileListsOf(MaxFiles, MaxItems)

FileNames == <<"f1.json", "f2.json", "f3.json", "f4.json">>

SettingsSet ==
    [CHUNK_SIZE_WORDS : 1..MaxChunkSize,
     RATE_LIMIT_REQUESTS : 1..MaxLimit,
     RATE_LIMIT_TIMEFRAME_SECONDS : 1..MaxWindow]

\* ------------------------------------------------------------ the collection
NoStore == [exists |-> FALSE, gen |-> 0, docs |-> <<>>]

\* ids=[f"id_{i}" for i in range(len(chunks))], for the 1-based position k
\* (variant counting from 1)
ChunkIdFromOne(k) == <<"id_", k>>
ChunkId(k) == <<"id_", k - 1>>

Doc(k, document, metadata) == [id |-> ChunkId(k), document |-> document, metadata |-> metadata]

\* a collection an earlier build-db left behind
LegacyStore ==
    [exists |-> TRUE, gen |-> 0,
     docs |-> [k \in 1..3 |-> Doc(k, <<"old">>, [source |-> "old.json"])]]

\* client.delete_collection(name)
DeletedStore(s) == [exists |-> FALSE, gen |-> s.gen, docs |-> <<>>]
\* client.create_collection(name): a new, empty collection
CreatedStore(s) == [exists |-> TRUE, gen |-> s.gen + 1, docs |-> <<>>]
\* collection.add(ids, embeddings, documents, metadatas)
AddedStore(s, cs, ms) ==
    [s EXCEPT !.docs = s.docs \o [k \in DOMAIN cs |-> Doc(k, cs[k], ms[k])]]

\* ----------------------------------------------------------- _process_files
\* What handling one qna_item does (data_builder.py lines 82-90): the new
\* seen_questions, the chunks and metadatas it appends, and whether it raised.
ItemOutcome(item, seen, W, file_name) ==
    LET skip == [raised |-> FALSE, seen |-> seen, chunks |-> <<>>, metas |-> <<>>]
        raise == [raised |-> TRUE, seen |-> seen, chunks |-> <<>>, metas |-> <<>>]
    IN  IF item.kind = "bad" THEN raise
        ELSE LET q == item.question
                 a == item.answer
             IN IF ~(Truthy(q) /\ Truthy(a)) THEN skip
                ELSE IF q.kind # "str" THEN raise
                ELSE IF QuestionKey(q.val) \in seen THEN skip
                ELSE LET seen2 == seen \cup {QuestionKey(q.val)}
                     IN IF a.kind # "str"
                        THEN [raise EXCEPT !.seen = seen2]
                        ELSE LET texts == ChunkTexts(a.val, W)
                                 src == IF item.url # "" THEN item.url ELSE file_name
                             IN [raised |-> FALSE, seen |-> seen2,
                                 chunks |-> [k \in DOMAIN texts |-> Document(q.val, texts[k])],
                                 metas |-> [k \in DOMAIN texts |-> [source |-> src]]]

\* `if not chunks` (line 58)
\* (variant without the emptiness test)
NoChunksNever(cs) == FALSE
NoChunks(cs) == cs = <<>>

BuilderAtRest == bpc \in {"idle", "done", "failed", "crashed"}

\* run(), lines 51-55, and the first line of _process_files (73)
BuildStart ==
    /\ BuilderAtRest
    /\ runs < MaxRuns
    /\ runs' = runs + 1
    /\ storeAtStart' = store
    /\ prevBuild' = [done |-> bpc = "done", docs |-> store.docs]
    /\ chunks' = <<>> /\ metadatas' = <<>> /\ seen_questions' = {}
    /\ origins' = <<>> /\ reached' = {} /\ keyOrigins' = {} /\ failedFiles' = {}
    /\ fileIdx' = 1 /\ recIdx' = 1
    /\ IF files = <<>>
       THEN bpc' = "failed" /\ result' = <<0, 0>>
       ELSE bpc' = "open" /\ result' = <<>>
    /\ UNCHANGED <<settings, files, store, serverVars, rateVars>>

\* the head of the file loop: open + json.load (lines 74-79), or the return (93)
OpenFile ==
    /\ bpc = "open"
    /\ IF fileIdx > Len(files)
       THEN bpc' = "check" /\ UNCHANGED <<fileIdx, recIdx, failedFiles>>
       ELSE IF ~files[fileIdx].readable
       THEN /\ failedFiles' = failedFiles \cup {fileIdx}
            /\ fileIdx' = fileIdx + 1
            /\ UNCHANGED <<bpc, recIdx>>
       ELSE IF files[fileIdx].items = <<>>
       THEN fileIdx' = fileIdx + 1 /\ UNCHANGED <<bpc, recIdx, failedFiles>>
       ELSE bpc' = "item" /\ recIdx' = 1 /\ UNCHANGED <<fileIdx, failedFiles>>
    /\ UNCHANGED <<settings, files, store, chunks, metadatas, seen_questions, result, runs,
                   origins, reached, keyOrigins, storeAtStart, prevBuild,
                   serverVars, rateVars>>

\* one qna_item (lines 80-90); an exception ends the file (lines 91-92)
ProcessItem ==
    /\ bpc = "item"
    /\ LET item == files[fileIdx].items[recIdx]
           out == ItemOutcome(item, seen_questions, settings.CHUNK_SIZE_WORDS,
                              FileNames[fileIdx])
           here == <<fileIdx, recIdx>>
       IN /\ seen_questions' = out.seen
          /\ chunks' = chunks \o out.chunks
          /\ metadatas' = metadatas \o out.metas
          /\ origins' = origins \o [k \in DOMAIN out.chunks |-> here]
          /\ reached' = reached \cup {here}
          /\ keyOrigins' = IF out.seen # seen_questions THEN keyOrigins \cup {here}
                           ELSE keyOrigins
          /\ failedFiles' = IF out.raised THEN failedFiles \cup {fileIdx} ELSE failedFiles
          /\ IF out.raised \/ recIdx = Len(files[fileIdx].items)
             THEN bpc' = "open" /\ fileIdx' = fileIdx + 1 /\ recIdx' = 1
             ELSE bpc' = "item" /\ fileIdx' = fileIdx /\ recIdx' = recIdx + 1
    /\ UNCHANGED <<settings, files, store, result, runs, storeAtStart, prevBuild,
                   serverVars, rateVars>>

\* run(), lines 57-60
RunCheck ==
    /\ bpc = "check"
    /\ IF NoChunks(chunks)
       THEN bpc' = "failed" /\ result' = <<0, 0>>
       ELSE bpc' = "delete" /\ UNCHANGED result
    /\ UNCHANGED <<settings, files, store, fileIdx, recIdx, chunks, metadatas,
                   seen_questions, runs, origins, reached, keyOrigins, failedFiles,
                   storeAtStart, prevBuild, serverVars, rateVars>>

buildLocals == <<files, fileIdx, recIdx, chunks, metadatas, seen_questions, runs, origins,
                 reached, keyOrigins, failedFiles, storeAtStart, prevBuild>>

\* _create_collection, lines 104-106
DeleteCollection ==
    /\ bpc = "delete"
    /\ store' = IF store.exists THEN DeletedStore(store) ELSE store
    /\ bpc' = "create"
    /\ UNCHANGED <<settings, buildLocals, result, serverVars, rateVars>>

\* _create_collection, line 108
CreateCollection ==
    /\ bpc = "create"
    /\ store' = CreatedStore(store)
    /\ bpc' = "embed"
    /\ UNCHANGED <<settings, buildLocals, result, serverVars, rateVars>>

\* _create_collection, lines 110-111: encode returns ...
Embed ==
    /\ bpc = "embed"
    /\ bpc' = "add"
    /\ UNCHANGED <<settings, buildLocals, store, result, serverVars, rateVars>>

\* ... or raises, which nothing catches: build-db dies
EmbedFails ==
    /\ bpc = "embed"
    /\ bpc' = "crashed"
    /\ UNCHANGED <<settings, buildLocals, store, result, serverVars, rateVars>>

\* _create_collection, lines 112-117, and run()'s return (lines 62-63)
AddDocuments ==
    /\ bpc = "add"
    /\ store' = AddedStore(store, chunks, metadatas)
    /\ result' = <<Len(chunks), Cardinality(seen_questions)>>
    /\ bpc' = "done"
    /\ UNCHANGED <<settings, buildLocals, serverVars, rateVars>>

NextIngest == BuildStart \/ OpenFile \/ ProcessItem \/ RunCheck
NextBuild ==
    NextIngest \/ DeleteCollection \/ CreateCollection \/ Embed \/ EmbedFails \/ AddDocuments

\* ------------------------------------------------------------ startup_event
\* `if app.state.chroma_collection.count() == 0` (main.py line 64)
\* (variant comparing with < 0)
CountIsZeroNever(n) == n < 0
CountIsZero(n) == n = 0

\* lines 53-59: settings, embedding model, LLM
StartupLoad ==
    /\ spc = "off"
    /\ spc' = "connect"
    /\ UNCHANGED <<settings, buildVars, handle, startupSaw, rateVars>>

\* lines 61-63: PersistentClient + get_collection, which raises when the name is absent
StartupGetCollection ==
    /\ spc = "connect"
    /\ IF store.exists
       THEN spc' = "count" /\ handle' = store.gen /\ UNCHANGED startupSaw
       ELSE spc' = "fatal" /\ startupSaw' = store /\ UNCHANGED handle
    /\ UNCHANGED <<settings, buildVars, rateVars>>

\* lines 64-69: count() raises when the opened collection is gone; an empty one
\* raises ValueError; every exception ends in SystemExit(1)
StartupCount ==
    /\ spc = "count"
    /\ startupSaw' = store
    /\ IF ~(store.exists /\ store.gen = handle) THEN spc' = "fatal"
       ELSE IF CountIsZero(Len(store.docs)) THEN spc' = "fatal"
       ELSE spc' = "serving"
    /\ UNCHANGED <<settings, buildVars, handle, rateVars>>

NextServer == StartupLoad \/ StartupGetCollection \/ StartupCount

\* -------------------------------------------------------------- rate_limiter
\* what get_client_ip reads: the x-forwarded-for entries and request.client.host
RequestInputs ==
    {[xff |-> <<>>, host |-> c] : c \in Clients}
    \cup {[xff |-> <<c, d>>, host |-> d] : c \in Clients, d \in Clients}

\* dependencies.py lines 36-38
get_client_ip(request) == IF request.xff # <<>> THEN Head(request.xff) ELSE request.host

\* [t for t in records if t > now - T] (line 57)
\* (variant keeping the entry that is exactly T old: t >= now - T)
PrunedInclusive(list, now, T) == LET Keep(t) == t >= now - T IN SelectSeq(list, Keep)
Pruned(list, now, T) == LET Keep(t) == t > now - T IN SelectSeq(list, Keep)

\* len(records) >= RATE_LIMIT_REQUESTS (line 58)
LimitReached(list, L) == Len(list) >= L

InLimiter(pc) == pc \in {"prune", "check", "append"}

\* Whether a coroutine at pc has handed the event loop back.  rate_limiter has
\* no await between lines 54 and 60, so it never does so inside its body.
\* (variant: an await after every line of the body)
SuspendsAnywhere(pc) == TRUE
Suspends(pc) == ~InLimiter(pc)

\* the event loop runs r only when no other coroutine is in the middle of a step
CanRun(r) == \A r2 \in DOMAIN reqs : r2 # r => Suspends(reqs[r2].pc)

NoSnap == [c \in Clients |-> <<>>]

\* a /ask request arrives at a started server; lines 54-56
RateLimiterEnter(r) ==
    /\ spc = "serving"
    /\ reqs[r].pc = "pending"
    /\ \A r2 \in DOMAIN reqs : r2 < r => reqs[r2].pc # "pending"
    /\ CanRun(r)
    /\ \E request \in RequestInputs :
          LET ip == get_client_ip(request)
          IN /\ reqs' = [reqs EXCEPT ![r] = [pc |-> "prune", ip |-> ip, now |-> clock,
                                             prevSeen |-> lastSeen[ip],
                                             snap |-> rate_limit_records]]
             /\ lastSeen' = [lastSeen EXCEPT ![ip] = clock]
    /\ UNCHANGED <<settings, buildVars, serverVars, rate_limit_records, clock,
                   admittedLog, lastPrune>>

\* line 57
RateLimiterPrune(r) ==
    /\ reqs[r].pc = "prune"
    /\ CanRun(r)
    /\ LET ip == reqs[r].ip
       IN /\ rate_limit_records' =
                [rate_limit_records EXCEPT
                   ![ip] = Pruned(@, reqs[r].now, settings.RATE_LIMIT_TIMEFRAME_SECONDS)]
          /\ lastPrune' = [lastPrune EXCEPT ![ip] = reqs[r].now]
    /\ reqs' = [reqs EXCEPT ![r].pc = "check"]
    /\ UNCHANGED <<settings, buildVars, serverVars, clock, admittedLog, lastSeen>>

\* lines 58-59, with the rejected request recorded all the same
RateLimiterCheckRecording(r) ==
    /\ reqs[r].pc = "check"
    /\ CanRun(r)
    /\ IF LimitReached(rate_limit_records[reqs[r].ip], settings.RATE_LIMIT_REQUESTS)
       THEN /\ reqs' = [reqs EXCEPT ![r].pc = "rejected", ![r].snap = NoSnap]
            /\ rate_limit_records' =
                  [rate_limit_records EXCEPT ![reqs[r].ip] = Append(@, reqs[r].now)]
       ELSE /\ reqs' = [reqs EXCEPT ![r].pc = "append"]
            /\ UNCHANGED rate_limit_records
    /\ UNCHANGED <<settings, buildVars, serverVars, clock, admittedLog,
                   lastPrune, lastSeen>>

\* lines 58-59: HTTPException(429) or fall through
RateLimiterCheck(r) ==
    /\ reqs[r].pc = "check"
    /\ CanRun(r)
    /\ IF LimitReached(rate_limit_records[reqs[r].ip], settings.RATE_LIMIT_REQUESTS)
       THEN reqs' = [reqs EXCEPT ![r].pc = "rejected", ![r].snap = NoSnap]
       ELSE reqs' = [reqs EXCEPT ![r].pc = "append"]
    /\ UNCHANGED <<settings, buildVars, serverVars, rate_limit_records, clock, admittedLog,
                   lastPrune, lastSeen>>

\* line 60
RateLimiterAppend(r) ==
    /\ reqs[r].pc = "append"
    /\ CanRun(r)
    /\ LET ip == reqs[r].ip
       IN /\ rate_limit_records' = [rate_limit_records EXCEPT ![ip] = Append(@, reqs[r].now)]
          /\ admittedLog' = [admittedLog EXCEPT ![ip] = Append(@, reqs[r].now)]
    /\ reqs' = [reqs EXCEPT ![r].pc = "ask", ![r].snap = NoSnap]
    /\ UNCHANGED <<settings, buildVars, serverVars, clock, lastPrune, lastSeen>>

\* the endpoint itself (main.py lines 90-104): the streaming response is returned
Ask(r) ==
    /\ reqs[r].pc = "ask"
    /\ CanRun(r)
    /\ reqs' = [reqs EXCEPT ![r].pc = "done"]
    /\ UNCHANGED <<settings, buildVars, serverVars, rate_limit_records, clock, admittedLog,
                   lastPrune, lastSeen>>

\* time() moves on
Tick ==
    /\ clock < MaxTime
    /\ clock' = clock + 1
    /\ UNCHANGED <<settings, buildVars, serverVars, rate_limit_records, reqs, admittedLog,
                   lastPrune, lastSeen>>

NextRequests ==
    \E r \in Reqs :
        \/ RateLimiterEnter(r)
        \/ RateLimiterPrune(r)
        \/ RateLimiterCheck(r)
        \/ RateLimiterAppend(r)
        \/ Ask(r)

\* ---------------------------------------------------------- initial states

BuilderIdle ==
    /\ bpc = "idle" /\ fileIdx = 1 /\ recIdx = 1
    /\ chunks = <<>> /\ metadatas = <<>> /\ seen_questions = {}
    /\ result = <<>> /\ runs = 0
    /\ origins = <<>> /\ reached = {} /\ keyOrigins = {} /\ failedFiles = {}
    /\ prevBuild = [done |-> FALSE, docs |-> <<>>]

ServerOff == spc = "off" /\ handle = -1 /\ startupSaw = NoStore

NewRequest == [pc |-> "pending", ip |-> "", now |-> 0, prevSeen |-> -1, snap |-> NoSnap]

NoTraffic ==
    /\ rate_limit_records = [c \in Clients |-> <<>>]
    /\ clock = 0
    /\ reqs = [r \in Reqs |-> NewRequest]
    /\ admittedLog = [c \in Clients |-> <<>>]
    /\ lastPrune = [c \in Clients |-> 0]
    /\ lastSeen = [c \in Clients |-> -1]

DefaultSettings ==
    [CHUNK_SIZE_WORDS |-> MaxChunkSize, RATE_LIMIT_REQUESTS |-> MaxLimit,
     RATE_LIMIT_TIMEFRAME_SECONDS |-> MaxWindow]

\* build-db over every bounded DATA_DIR, with or without an earlier collection
InitBuild ==
    /\ settings \in {s \in SettingsSet : /\ s.RATE_LIMIT_REQUESTS = MaxLimit
                                         /\ s.RATE_LIMIT_TIMEFRAME_SECONDS = MaxWindow}
    /\ files \in FileLists
    /\ store \in {NoStore, LegacyStore}
    /\ storeAtStart = store
    /\ BuilderIdle /\ ServerOff /\ NoTraffic

SpecBuild == InitBuild /\ [][NextBuild]_vars

\* ingestion of one record with every bounded answer
Alphabet == {"x", "y", " "}
InitChunk ==
    /\ settings \in {s \in SettingsSet : /\ s.RATE_LIMIT_REQUESTS = MaxLimit
                                         /\ s.RATE_LIMIT_TIMEFRAME_SECONDS = MaxWindow}
    /\ \E a \in SeqsUpTo(Alphabet, MaxAnswerLen) :
          files = <<ReadableFile(<<Item(Str(<<" ", "A">>), Str(a), "")>>)>>
    /\ store = NoStore
    /\ storeAtStart = store
    /\ BuilderIdle /\ ServerOff /\ NoTraffic

SpecChunk == InitChunk /\ [][NextIngest]_vars

\* a server started on a built collection, under traffic
InitRate ==
    /\ settings \in {s \in SettingsSet : s.CHUNK_SIZE_WORDS = MaxChunkSize}
    /\ files = <<>>
    /\ store = LegacyStore
    /\ storeAtStart = store
    /\ BuilderIdle
    /\ spc = "serving" /\ handle = LegacyStore.gen /\ startupSaw = LegacyStore
    /\ NoTraffic

NextRate == NextRequests \/ Tick
SpecRate == InitRate /\ [][NextRate]_vars

\* build-db and the server side by side on one persist directory
ServeFileLists ==
    { <<>>,
      <<ReadableFile(<<Item(Str(<<"A">>), Str(<<"x", " ", "y">>), "")>>)>> }
InitServe ==
    /\ settings = DefaultSettings
    /\ files \in ServeFileLists
    /\ store \in {NoStore, LegacyStore}
    /\ storeAtStart = store
    /\ BuilderIdle /\ ServerOff /\ NoTraffic

NextServe == NextBuild \/ NextServer \/ NextRequests
SpecServe == InitServe /\ [][NextServe]_vars

\* ------------------------------------------------- vocabulary of the claims
Positions == UNION {{<<f, r>> : r \in DOMAIN files[f].items} : f \in DOMAIN files}
ItemAt(p) == files[p[1]].items[p[2]]
\* file-then-record order
Before(p, p2) == p[1] < p2[1] \/ (p[1] = p2[1] /\ p[2] < p2[2])
HasQuestion(p) == ItemAt(p).kind = "dict" /\ ItemAt(p).question.kind = "str"
\* identical after trim + lowercase
SameQuestion(p, p2) ==
    Lower(Strip(ItemAt(p).question.val)) = Lower(Strip(ItemAt(p2).question.val))
\* a record with a non-empty question and a non-empty answer
Usable(p) ==
    /\ HasQuestion(p)
    /\ ItemAt(p).question.val # <<>>
    /\ ItemAt(p).answer.kind # "none"
    /\ ItemAt(p).answer.val # <<>> \/ ItemAt(p).answer.kind = "nonstr"
Contributes(p) == \E k \in DOMAIN origins : origins[k] = p
\* _process_files has returned
ProcessingDone == bpc \in {"check", "delete", "create", "embed", "add", "done", "failed", "crashed"}

\* the number of whitespace-delimited words of s: the places where a word starts
WordCount(s) ==
    Cardinality({i \in DOMAIN s : ~IsSpace(s[i]) /\ (i = 1 \/ IsSpace(s[i - 1]))})
CeilDiv(n, W) == (n + W - 1) \div W
\* the answer segment of a chunk: what follows "\nAnswer: "
Body(doc) ==
    LET j == CHOOSE i \in DOMAIN doc : doc[i] = "\nAnswer: "
    IN SubSeq(doc, j + 1, Len(doc))
RECURSIVE Flatten(_)
Flatten(ss) == IF ss = <<>> THEN <<>> ELSE Head(ss) \o Flatten(Tail(ss))
\* the chunks cut from record p, in order
ChunksOf(p) ==
    LET ks == {k \in DOMAIN origins : origins[k] = p}
    IN IF ks = {} THEN <<>>
       ELSE SubSeq(chunks, CHOOSE k \in ks : \A m \in ks : k <= m,
                           CHOOSE k \in ks : \A m \in ks : m <= k)

\* ---------------------------------------------------------------- claims
\* C4 (as stated): of any two records whose questions are identical after
\* trim+lowercase, it is the first in file-then-record order that survives:
\* the later one contributes no chunk.
C4_FirstOfAnyTwoSurvives ==
    ProcessingDone =>
        \A p \in Positions : \A p2 \in Positions :
            (HasQuestion(p) /\ HasQuestion(p2) /\ Before(p, p2) /\ SameQuestion(p, p2))
            => ~Contributes(p2)

\* C4 (amended): every record that contributes a chunk has a non-empty question
\* and answer and is the first record reached by the scan, among those with a
\* non-empty question and answer, that has its normalized question; so of two
\* such records at most the first contributes and the later contributes nothing.
C4_FirstUsableWins ==
    \A k \in DOMAIN origins :
        /\ origins[k] \in reached
        /\ Usable(origins[k])
        /\ \A p \in reached :
              (Usable(p) /\ p # origins[k] /\ SameQuestion(p, origins[k]))
              => Before(origins[k], p)

\* a duplicate written differently was reached and dropped
C4_Witness ==
    /\ ProcessingDone
    /\ \E k \in DOMAIN origins : \E p \in reached :
          /\ Usable(p) /\ Before(origins[k], p) /\ SameQuestion(p, origins[k])
          /\ ItemAt(p).question # ItemAt(origins[k]).question
          /\ ItemAt(p).answer.kind = "str"

\* C5: a surviving record whose answer has n words yields ceil(n/W) chunks, in
\* order, all of W words but the last, which has 1..W words; the chunk bodies
\* tokenize, in order, to the whitespace-tokenized answer.
C5_Chunking ==
    ProcessingDone =>
        \A p \in keyOrigins :
            ItemAt(p).answer.kind = "str" =>
                LET a == ItemAt(p).answer.val
                    W == settings.CHUNK_SIZE_WORDS
                    n == WordCount(a)
                    cs == ChunksOf(p)
                IN /\ Len(cs) = CeilDiv(n, W)
                   /\ Len(cs) = Cardinality({k \in DOMAIN origins : origins[k] = p})
                   /\ \A k \in DOMAIN cs :
                         IF k < Len(cs) THEN WordCount(Body(cs[k])) = W
                         ELSE WordCount(Body(cs[k])) \in 1..W
                   /\ Flatten([k \in DOMAIN cs |-> Split(Body(cs[k]))]) = Split(a)

\* an answer cut into several chunks, the last one short
C5_Witness ==
    /\ ProcessingDone
    /\ Len(chunks) >= 2
    /\ WordCount(Body(chunks[Len(chunks)])) < settings.CHUNK_SIZE_WORDS
    /\ WordCount(Body(chunks[1])) = settings.CHUNK_SIZE_WORDS

\* C6: a run that yields no chunk returns (0, 0) and leaves the persisted
\* collection exactly as it found it (not deleted, recreated, modified or created).
C6_EmptyRunLeavesIndex ==
    (ProcessingDone /\ chunks = <<>>) =>
        /\ store = storeAtStart
        /\ BuilderAtRest => (bpc = "failed" /\ result = <<0, 0>>)

\* files were scanned, none gave a chunk, and an earlier collection is in place
C6_Witness ==
    /\ bpc = "failed" /\ files # <<>> /\ reached # {}
    /\ store.exists /\ store.docs # <<>>

\* C7 (as stated): a file whose processing raised contributes no chunk and no
\* deduplication key, and every other file is processed to its end.
C7_FailedFileContributesNothing ==
    ProcessingDone =>
        /\ \A f \in failedFiles :
              /\ \A k \in DOMAIN origins : origins[k][1] # f
              /\ \A p \in keyOrigins : p[1] # f
        /\ \A f \in DOMAIN files :
              f \notin failedFiles =>
                  \A r \in DOMAIN files[f].items : <<f, r>> \in reached

\* C10: after a successful run the collection holds exactly this run's chunks
\* under the ids id_0 .. id_(n-1) in chunk order, and a successful re-run over
\* the same files leaves the same documents.
C10_BuildReplaces ==
    bpc = "done" =>
        /\ store.exists
        /\ Len(store.docs) = Len(chunks)
        /\ result[1] = Len(chunks)
        /\ \A k \in DOMAIN store.docs :
              /\ store.docs[k].id = <<"id_", k - 1>>
              /\ store.docs[k].document = chunks[k]
              /\ store.docs[k].metadata = metadatas[k]
        /\ prevBuild.done => store.docs = prevBuild.docs

\* a second successful build over the same files
C10_Witness ==
    /\ bpc = "done" /\ runs >= 2 /\ prevBuild.done
    /\ Len(store.docs) >= 2 /\ Len(store.docs) # Len(LegacyStore.docs)


\* the documents a build of the current chunks consists of
BuildDocs ==
    [k \in DOMAIN chunks |->
        [id |-> <<"id_", k - 1>>, document |-> chunks[k], metadata |-> metadatas[k]]]

\* C8 (as stated): at every step of _create_collection the named collection is
\* absent or holds the complete chunk set of one build (the one it replaces or
\* the one being written), never an empty or partly populated collection.
C8_NoPartialCollection ==
    bpc \in {"create", "embed", "add"} =>
        \/ ~store.exists
        \/ /\ store.docs # <<>>
           /\ store.docs = storeAtStart.docs \/ store.docs = BuildDocs

\* C9: startup reaches serving only on a collection that exists and is not
\* empty; otherwise it ends in the fatal exit, and /ask is handled only by a
\* server that reached serving.
C9_ServesOnlyNonEmptyIndex ==
    /\ spc = "serving" =>
          /\ startupSaw.exists
          /\ startupSaw.gen = handle
          /\ Len(startupSaw.docs) > 0
    /\ (spc \in {"serving", "fatal"} /\ (~startupSaw.exists \/ startupSaw.docs = <<>>))
          => spc = "fatal"
    /\ spc # "serving" => \A r \in Reqs : reqs[r].pc = "pending"

\* startup found the collection present but empty, and refused to serve
C9_Witness ==
    /\ spc = "fatal" /\ startupSaw.exists /\ startupSaw.docs = <<>>
    /\ \A r \in Reqs : reqs[r].pc = "pending"

\* ------------------------------------------------------ rate limiter claims
\* how many timestamps of client c were admitted in the span (lo, hi]
AdmittedIn(c, lo, hi) ==
    Cardinality({i \in DOMAIN admittedLog[c] : lo < admittedLog[c][i] /\ admittedLog[c][i] <= hi})
Limit == settings.RATE_LIMIT_REQUESTS
Window == settings.RATE_LIMIT_TIMEFRAME_SECONDS
Decided(r) == reqs[r].pc \in {"rejected", "ask", "done"}
Admitted(r) == reqs[r].pc \in {"ask", "done"}

\* C1: per client, no T-second span holds more than L admitted requests; a
\* request is rejected exactly when L requests of the trailing T seconds were
\* admitted (it would be the (L+1)th); and a request arriving T seconds or more
\* after the client's previous one is admitted.
C1_SlidingWindow ==
    /\ \A c \in Clients : \A t \in 0..MaxTime : AdmittedIn(c, t - Window, t) <= Limit
    /\ \A r \in Reqs :
          /\ reqs[r].pc = "rejected"
                => AdmittedIn(reqs[r].ip, reqs[r].now - Window, reqs[r].now) = Limit
          /\ Admitted(r)
                => AdmittedIn(reqs[r].ip, reqs[r].now - Window, reqs[r].now) \in 1..Limit
          /\ (Decided(r) /\ (reqs[r].prevSeen = -1 \/ reqs[r].now - reqs[r].prevSeen >= Window))
                => Admitted(r)

\* a client was rejected as the (L+1)th of a span and, exactly T seconds after
\* its last request, admitted again
C1_Witness ==
    \E r \in Reqs : \E r2 \in Reqs :
        /\ r < r2 /\ reqs[r].ip = reqs[r2].ip
        /\ reqs[r].pc = "rejected" /\ Admitted(r2)
        /\ reqs[r2].prevSeen = reqs[r].now
        /\ reqs[r2].now - reqs[r].now = Window

\* C2: the step that rejects a request leaves the client's list as the entries
\* it held on entry that are still inside the window, all of them admitted
\* earlier, adds nothing for the rejected request, and changes no other client.
C2_RejectRecordsNothing ==
    [][\A r \in Reqs :
          (reqs[r].pc = "check" /\ reqs'[r].pc = "rejected") =>
              LET ip == reqs[r].ip
                  InWindow(t) == t > reqs[r].now - Window
              IN /\ rate_limit_records'[ip] = SelectSeq(reqs[r].snap[ip], InWindow)
                 /\ \A i \in DOMAIN rate_limit_records'[ip] :
                       \E j \in DOMAIN admittedLog[ip] :
                           admittedLog[ip][j] = rate_limit_records'[ip][i]
                 /\ \A c \in Clients \ {ip} : rate_limit_records'[c] = reqs[r].snap[c]
                 /\ admittedLog' = admittedLog]_vars

\* a request was rejected while the other client had entries on record
C2_Witness ==
    \E r \in Reqs :
        /\ reqs[r].pc = "rejected"
        /\ rate_limit_records[reqs[r].ip] # <<>>
        /\ \E c \in Clients \ {reqs[r].ip} : rate_limit_records[c] # <<>>

\* C3: whatever the order in which concurrent requests of a client are run,
\* the client's list is exactly the admitted timestamps the latest pruning
\* kept (none lost, none twice), and no client has more than L admissions on
\* record or in any T-second span.
C3_AtomicUpdate ==
    /\ \A c \in Clients :
          LET Kept(t) == t > lastPrune[c] - Window
          IN /\ rate_limit_records[c] = SelectSeq(admittedLog[c], Kept)
             /\ Len(rate_limit_records[c]) <= Limit
             /\ \A i \in DOMAIN admittedLog[c] :
                   AdmittedIn(c, admittedLog[c][i] - Window, admittedLog[c][i]) <= Limit

\* L+1 requests of one client read the same clock value: L admitted, one rejected
C3_Witness ==
    \E c \in Clients : \E t \in 0..MaxTime :
        LET same == {r \in Reqs : Decided(r) /\ reqs[r].ip = c /\ reqs[r].now = t}
        IN /\ Cardinality(same) = Limit + 1
           /\ Cardinality({r \in same : Admitted(r)}) = Limit

====
